---- MODULE Spec2Model ----
(***************************************************************************)
(* Tracker sessions of Tribler's torrent checker                           *)
(* (Tribler/Core/TorrentChecker/session.py): TrackerSession and its three  *)
(* subclasses HttpTrackerSession, UdpTrackerSession (with its UDPScraper)  *)
(* and FakeDHTSession.                                                     *)
(*                                                                         *)
(* A session object is a record of its fields; obj maps each live session  *)
(* to its record and _active_session_dict is the class attribute of        *)
(* UdpTrackerSession.  Every method is an operator from the state before   *)
(* the call to the state after it, so that a handler is composed of the    *)
(* methods it calls, in the order the code calls them.  The objects a      *)
(* session owns (its Deferreds, its HTTP requests, its scraper with the    *)
(* timer and the datagrams written) are fields of the record too.          *)
(*                                                                         *)
(* Twisted is modelled by what the session code can observe of it:         *)
(*  - Deferred.callback/errback on a Deferred that was already called      *)
(*    raises AlreadyCalledError and leaves its result alone;               *)
(*  - Deferred.cancel on a pending Deferred runs the canceller and then    *)
(*    errbacks it with CancelledError, on a called one it does nothing;    *)
(*  - an exception raised inside a Deferred's callback is caught by the    *)
(*    Deferred, one raised by a timer or datagram handler reaches the      *)
(*    reactor, which logs it: either way the handler stops there.          *)
(***************************************************************************)
EXTENDS Integers, Sequences, FiniteSets, TLC

\* ---------------------------------------------------------------- bounds
\* distinct infohashes the caller adds to one session (named 1, 2, ...)
MaxHashes == 2
\* largest transaction id random.randint draws in the model (0..MaxTxId)
MaxTxId == 1
\* connect_to_tracker calls on one session object
MaxConnects == 2
\* get_metainfo queries one DHT session dispatches
MaxQueries == 2
\* infohashes offered to one session in SpecCap (beyond the cap of 74)
MaxCapHashes == 76
\* the same two bounds for each of the two concurrent sessions of SpecPair
PairHashes == 1
PairConnects == 1
\* increase_retries calls on one session object
MaxRetries == 1

\* ------------------------------------------------------ program constants
TRACKER_ACTION_CONNECT == 0
TRACKER_ACTION_SCRAPE == 2
MAX_INT32 == 2 ^ 16 - 1
MAX_TRACKER_MULTI_SCRAPE == 74

\* Python's None where the model needs a value of the field's type
NoneAction == -1
NoneList == << -1 >>

Min(a, b) == IF a < b THEN a ELSE b
Range(seq) == {seq[i] : i \in 1..Len(seq)}

VARIABLES
    obj,                    \* session id -> the session object's fields
    _active_session_dict    \* UdpTrackerSession._active_session_dict

vars == <<obj, _active_session_dict>>

Sessions == {"s1", "s2"}
TrackerTypes == {"HTTP", "UDP", "DHT"}

\* ------------------------------------------------------------- Deferred
NewDeferred == [state |-> "pending", value |-> <<>>, fired |-> 0]

\* callback (st = "callback") or errback (st = "errback", "cancelled")
Deferred_fire(d, st, val) ==
    IF d.state = "pending"
    THEN [state |-> st, value |-> val, fired |-> d.fired + 1]
    ELSE [d EXCEPT !.fired = @ + 1]

\* self.result_deferred.callback / .errback on the session's current sink
result_deferred_fire(o, st, val) ==
    IF o.result_deferred = 0
    THEN [o EXCEPT !.raised = "AttributeError"]
    ELSE [o EXCEPT !.deferreds[o.result_deferred] = Deferred_fire(@, st, val),
                   !.raised = IF o.deferreds[o.result_deferred].state = "pending"
                              THEN @ ELSE "AlreadyCalledError"]

\* self.result_deferred.cancel(): _on_cancel only logs
result_deferred_cancel(o) ==
    IF o.result_deferred # 0 /\ o.deferreds[o.result_deferred].state = "pending"
    THEN [o EXCEPT !.deferreds[o.result_deferred] = Deferred_fire(@, "cancelled", <<>>)]
    ELSE o

\* ------------------------------------------------------- TrackerSession
NoScraper ==
    [state |-> "None", timeout |-> "None", expect_connection_response |-> TRUE,
     written |-> <<>>, refused |-> 0]

TrackerSession_init(tracker_type) ==
    [tracker_type |-> tracker_type,
     _infohash_list |-> <<>>,
     result_deferred |-> 0,
     _retries |-> 0,
     _action |-> NoneAction,
     _is_initiated |-> FALSE,
     _is_finished |-> FALSE,
     _is_failed |-> FALSE,
     _is_timed_out |-> FALSE,
     \* HttpTrackerSession
     request |-> 0,
     \* UdpTrackerSession
     _transaction_id |-> 0,
     transaction_id |-> 0,
     scraper |-> NoScraper,
     ip_resolve_deferred |-> "None",
     \* FakeDHTSession
     _session |-> (tracker_type = "DHT"),
     \* what the session made or called
     deferreds |-> <<>>,     \* the Deferreds connect_to_tracker returned
     requests |-> <<>>,      \* the HTTP requests issued
     queries |-> <<>>,       \* the get_metainfo queries dispatched
     results |-> <<>>,       \* the calls of _on_result_callback
     raised |-> "None"]      \* the exception the call in progress ended with

TrackerSession_cleanup(o) == [o EXCEPT !._infohash_list = NoneList]

can_add_request(o) ==
    IF o._is_initiated THEN FALSE
    ELSE Len(o._infohash_list) < MAX_TRACKER_MULTI_SCRAPE

has_request(o, infohash) == infohash \in Range(o._infohash_list)

\* add_request without its first assert
add_request_unchecked(o, infohash) ==
    IF o._infohash_list = NoneList THEN [o EXCEPT !.raised = "TypeError"]
    ELSE IF infohash \in Range(o._infohash_list) THEN [o EXCEPT !.raised = "AssertionError"]
    ELSE [o EXCEPT !._infohash_list = Append(@, infohash)]

add_request(o, infohash) ==
    IF o._is_initiated THEN [o EXCEPT !.raised = "AssertionError"]
    ELSE IF o._infohash_list = NoneList THEN [o EXCEPT !.raised = "TypeError"]
    ELSE IF has_request(o, infohash) THEN [o EXCEPT !.raised = "AssertionError"]
    ELSE [o EXCEPT !._infohash_list = Append(@, infohash)]

\* create_connection that also reopens the session for add_request
TrackerSession_create_connection_reopens(o) ==
    [o EXCEPT !._is_timed_out = FALSE, !._is_initiated = FALSE]

TrackerSession_create_connection(o) == [o EXCEPT !._is_timed_out = FALSE]

increase_retries(o) == [o EXCEPT !._retries = @ + 1]

\* ----------------------------------------------------------- UDPScraper
\* UDPScraper.__init__ arms the timer; reactor.listenUDP starts the protocol
UDPScraper_init ==
    [state |-> "listening", timeout |-> "active", expect_connection_response |-> TRUE,
     written |-> <<>>, refused |-> 0]

UDPScraper_stop(sc) ==
    [sc EXCEPT !.timeout = IF @ = "active" THEN "cancelled" ELSE @,
               !.state = IF @ = "listening" THEN "stopped" ELSE @]

write_data(sc, message) == [sc EXCEPT !.written = Append(@, message)]

\* ---------------------------------------------------- UdpTrackerSession
Udp_failed(o) ==
    LET o1 == [o EXCEPT !._is_failed = TRUE]
    IN  IF o1.result_deferred # 0 THEN result_deferred_fire(o1, "errback", <<>>) ELSE o1

\* Python 2: dict.items() is a list of (session, id) tuples, and an int
\* never equals a tuple
PyEqual_int_tuple(i, t) == FALSE

in_items(transaction_id, dict) ==
    \E k \in DOMAIN dict : PyEqual_int_tuple(transaction_id, <<k, dict[k]>>)

\* transaction_id is the draw of random.randint the loop ends with
generate_transaction_id(self, w, transaction_id) ==
    [w EXCEPT !.reg = [k \in DOMAIN w.reg \cup {self} |->
                          IF k = self THEN transaction_id ELSE w.reg[k]],
              !.o.transaction_id = transaction_id]

\* remove_transaction_id deleting by the id, not by the session
remove_transaction_id_by_value(session, reg) ==
    IF session \in DOMAIN reg
    THEN [k \in {x \in DOMAIN reg : reg[x] # reg[session]} |-> reg[k]]
    ELSE reg

remove_transaction_id(session, reg) ==
    IF session \in DOMAIN reg
    THEN [k \in DOMAIN reg \ {session} |-> reg[k]]
    ELSE reg

\* ip_resolve_deferred.cancel(): a pending resolution errbacks into
\* on_error, whose exception (if any) stays inside the Deferred
ip_resolve_deferred_cancel(o) ==
    IF o.ip_resolve_deferred = "pending"
    THEN [Udp_failed([o EXCEPT !.ip_resolve_deferred = "cancelled"])
             EXCEPT !.raised = o.raised]
    ELSE o

\* cleanup without its remove_transaction_id call
Udp_cleanup_keeps_id(self, w) ==
    LET o1 == TrackerSession_cleanup(w.o)
        o2 == IF o1.ip_resolve_deferred # "None" THEN ip_resolve_deferred_cancel(o1) ELSE o1
        o3 == result_deferred_cancel(o2)
        o4 == IF o3.scraper.state = "deleted" THEN [o3 EXCEPT !.raised = "AttributeError"]
              ELSE IF o3.scraper.state # "None"
                   THEN [o3 EXCEPT !.scraper = [UDPScraper_stop(@) EXCEPT !.state = "deleted"]]
                   ELSE o3
    IN  [o |-> o4, reg |-> w.reg]

\* cleanup that leaves the scraper alone
Udp_cleanup_keeps_scraper(self, w) ==
    LET o1 == TrackerSession_cleanup(w.o)
        reg1 == remove_transaction_id(self, w.reg)
        o2 == IF o1.ip_resolve_deferred # "None" THEN ip_resolve_deferred_cancel(o1) ELSE o1
        o3 == result_deferred_cancel(o2)
    IN  [o |-> o3, reg |-> reg1]

Udp_cleanup(self, w) ==
    LET o1 == TrackerSession_cleanup(w.o)
        reg1 == remove_transaction_id(self, w.reg)
        o2 == IF o1.ip_resolve_deferred # "None" THEN ip_resolve_deferred_cancel(o1) ELSE o1
        o3 == result_deferred_cancel(o2)
        o4 == IF o3.scraper.state = "deleted" THEN [o3 EXCEPT !.raised = "AttributeError"]
              ELSE IF o3.scraper.state # "None"
                   THEN [o3 EXCEPT !.scraper = [UDPScraper_stop(@) EXCEPT !.state = "deleted"]]
                   ELSE o3
    IN  [o |-> o4, reg |-> reg1]

Udp_create_connection(self, w, transaction_id) ==
    generate_transaction_id(self,
        [w EXCEPT !.o = [TrackerSession_create_connection(@)
                            EXCEPT !._action = TRACKER_ACTION_CONNECT]],
        transaction_id)

on_start(o) ==
    [o EXCEPT !.scraper = write_data(@,
        [action |-> o._action, transaction_id |-> o._transaction_id, infohashes |-> <<>>])]

\* an old scraper is stopped and replaced; after "del self.scraper" the
\* attribute read raises
on_ip_address_resolved(o) ==
    LET o1 == [o EXCEPT !.ip_resolve_deferred = "resolved"]
    IN  IF o1.scraper.state = "deleted" THEN [o1 EXCEPT !.raised = "AttributeError"]
        ELSE on_start([o1 EXCEPT !.scraper = UDPScraper_init])

\* UdpTrackerSession.on_error: the errback of the DNS resolution
Udp_on_error(o) == Udp_failed([o EXCEPT !.ip_resolve_deferred = "failed"])

\* answer is what reactor.resolve returns: a Deferred that fires "later", or
\* one that has fired already ("resolved" for an IP literal, "failed" for a
\* resolver that fails at once), on which addCallbacks runs the callback
\* before the new result_deferred exists; an exception of that callback
\* stays inside the Deferred
Udp_connect_to_tracker(o, answer) ==
    LET o1 == [o EXCEPT !._is_initiated = TRUE]
        o2 == result_deferred_cancel(o1)
        o3 == IF o2.ip_resolve_deferred # "None" THEN ip_resolve_deferred_cancel(o2) ELSE o2
        o4 == [o3 EXCEPT !.ip_resolve_deferred = "pending"]
        o5 == IF answer = "resolved"
              THEN [on_ip_address_resolved(o4) EXCEPT !.raised = o4.raised]
              ELSE IF answer = "failed"
                   THEN [Udp_on_error(o4) EXCEPT !.raised = o4.raised]
                   ELSE o4
    IN  [o5 EXCEPT !.deferreds = Append(@, NewDeferred),
                   !.result_deferred = Len(o5.deferreds) + 1]

\* the k-th (complete, downloaded, incomplete) tuple of a datagram that is
\* long enough to hold it
Tuple(data, k) == <<10 + k, 100 + k, 2 * k>>

\* handle_connection_response without the checks of the CONNECT response
handle_connection_response_unvalidated(self, w, data, transaction_id) ==
    IF w.o._is_failed THEN w
    ELSE LET w1 == generate_transaction_id(self,
                       [w EXCEPT !.o._action = TRACKER_ACTION_SCRAPE], transaction_id)
         IN  [w1 EXCEPT !.o.scraper = write_data(@,
                 [action |-> w1.o._action, transaction_id |-> w1.o._transaction_id,
                  infohashes |-> w1.o._infohash_list])]

handle_connection_response(self, w, data, transaction_id) ==
    IF w.o._is_failed THEN w
    ELSE IF data.length < 16 THEN [w EXCEPT !.o = Udp_failed(@)]
    ELSE IF data.action # w.o._action \/ data.transaction_id # w.o._transaction_id
         THEN [w EXCEPT !.o = Udp_failed(@)]
    ELSE LET w1 == generate_transaction_id(self,
                       [w EXCEPT !.o._action = TRACKER_ACTION_SCRAPE], transaction_id)
         IN  [w1 EXCEPT !.o.scraper = write_data(@,
                 [action |-> w1.o._action, transaction_id |-> w1.o._transaction_id,
                  infohashes |-> w1.o._infohash_list])]

\* handle_response binding the tuples to the infohashes in reverse order
seed_leech_dict_reversed(infohash_list, data) ==
    [infohash \in Range(infohash_list) |->
        LET k == CHOOSE i \in 1..Len(infohash_list) : infohash_list[i] = infohash
            r == Len(infohash_list) + 1 - k
        IN  <<Tuple(data, r)[1], Tuple(data, r)[3]>>]

seed_leech_dict(infohash_list, data) ==
    [infohash \in Range(infohash_list) |->
        LET k == CHOOSE i \in 1..Len(infohash_list) :
                    /\ infohash_list[i] = infohash
                    /\ \A j \in 1..Len(infohash_list) : infohash_list[j] = infohash => j <= i
        IN  <<Tuple(data, k)[1], Tuple(data, k)[3]>>]

\* handle_response_checked accepting a response longer than 8 + 12 * N
handle_response_checked_longer(self, w, data) ==
    IF data.length < 8 THEN [w EXCEPT !.o = Udp_failed(@)]
    ELSE IF data.action # w.o._action \/ data.transaction_id # w.o._transaction_id
         THEN [w EXCEPT !.o = Udp_failed(@)]
    ELSE IF data.length - 8 < Len(w.o._infohash_list) * 12
         THEN [w EXCEPT !.o = Udp_failed(@)]
    ELSE LET o1 == [w.o EXCEPT !._is_finished = TRUE, !.scraper = UDPScraper_stop(@)]
         IN  [o |-> result_deferred_fire(o1, "callback",
                        seed_leech_dict(w.o._infohash_list, data)),
              reg |-> remove_transaction_id(self, w.reg)]

\* handle_response after its is_failed guard: the checks of the SCRAPE
\* response and the success path
handle_response_checked(self, w, data) ==
    IF data.length < 8 THEN [w EXCEPT !.o = Udp_failed(@)]
    ELSE IF data.action # w.o._action \/ data.transaction_id # w.o._transaction_id
         THEN [w EXCEPT !.o = Udp_failed(@)]
    ELSE IF data.length - 8 # Len(w.o._infohash_list) * 12
         THEN [w EXCEPT !.o = Udp_failed(@)]
    ELSE LET o1 == [w.o EXCEPT !._is_finished = TRUE, !.scraper = UDPScraper_stop(@)]
         IN  [o |-> result_deferred_fire(o1, "callback",
                        seed_leech_dict(w.o._infohash_list, data)),
              reg |-> remove_transaction_id(self, w.reg)]

\* handle_response without its is_failed guard
handle_response_unguarded(self, w, data) == handle_response_checked(self, w, data)

handle_response(self, w, data) ==
    IF w.o._is_failed THEN w
    ELSE handle_response_checked(self, w, data)

datagramReceived(self, w, data, transaction_id) ==
    IF w.o.scraper.expect_connection_response
    THEN LET w1 == [w EXCEPT !.o.scraper.timeout = IF @ = "active" THEN "cancelled" ELSE @]
             w2 == handle_connection_response(self, w1, data, transaction_id)
         IN  IF w2.o.raised # "None" THEN w2
             ELSE [w2 EXCEPT !.o.scraper.expect_connection_response = FALSE]
    ELSE handle_response(self, w, data)

\* whether datagramReceived gets as far as generate_transaction_id
draws_transaction_id(o, data) ==
    /\ o.scraper.expect_connection_response
    /\ ~o._is_failed
    /\ data.length >= 16
    /\ data.action = o._action
    /\ data.transaction_id = o._transaction_id

\* UDPScraper.on_error: the timer's callback, and connectionRefused's
UDPScraper_on_error(o) == Udp_failed(o)

\* --------------------------------------------------- HttpTrackerSession
Http_failed(o) ==
    LET o1 == [o EXCEPT !._is_failed = TRUE]
    IN  IF o1.result_deferred # 0 THEN result_deferred_fire(o1, "errback", <<>>) ELSE o1

Http_on_error(o) == Http_failed(o)

Http_create_connection(o) ==
    [TrackerSession_create_connection(o) EXCEPT !._action = TRACKER_ACTION_CONNECT]

\* the GET carries the infohash list as it is now; the old result_deferred
\* and the old request are dropped, not cancelled
Http_connect_to_tracker(o) ==
    [o EXCEPT !.requests = Append(@, [state |-> "pending", info_hash |-> o._infohash_list]),
              !.request = Len(o.requests) + 1,
              !._action = TRACKER_ACTION_SCRAPE,
              !._is_initiated = TRUE,
              !.deferreds = Append(@, NewDeferred),
              !.result_deferred = Len(o.deferreds) + 1]

\* on_response that reads the body whatever the status code is
on_response_any_status(o, i, code) == [o EXCEPT !.requests[i].state = "reading"]

\* request i answers with a status line: readBody starts on 200 only
on_response(o, i, code) ==
    IF code # 200
    THEN Http_failed([o EXCEPT !.requests[i].state = "done"])
    ELSE [o EXCEPT !.requests[i].state = "reading"]

\* dict.get(key, 0) of a 'files' entry: -1 stands for a missing key
Get(entry, key) == IF entry[key] = -1 THEN 0 ELSE entry[key]

\* the result map without the (0, 0) entries of the infohashes left out
Http_seed_leech_dict_unfilled(infohash_list, files) ==
    [infohash \in DOMAIN files |->
        <<Get(files[infohash], "complete"), Get(files[infohash], "incomplete")>>]

Http_seed_leech_dict(infohash_list, files) ==
    [infohash \in DOMAIN files \cup Range(infohash_list) |->
        IF infohash \in DOMAIN files
        THEN <<Get(files[infohash], "complete"), Get(files[infohash], "incomplete")>>
        ELSE <<0, 0>>]

\* the kind of value libtorrent's bdecode returns: None for a body that is no
\* bencoding, the empty body included
bdecode(body) ==
    IF body.kind \in {"empty", "undecodable"} THEN "None" ELSE body.kind

\* a decoded integer has no "in": the membership test raises
_process_scrape_response(o, body) ==
    IF body.kind = "None" THEN Http_failed(o)
    ELSE IF bdecode(body) = "None" THEN Http_failed(o)
    ELSE IF o._infohash_list = NoneList THEN [o EXCEPT !.raised = "TypeError"]
    ELSE IF bdecode(body) = "int" THEN [o EXCEPT !.raised = "TypeError"]
    ELSE IF body.files_kind = "dict"
         THEN result_deferred_fire([o EXCEPT !._is_finished = TRUE], "callback",
                                   Http_seed_leech_dict(o._infohash_list, body.files))
    ELSE IF body.failure_reason THEN Http_failed(o)
    ELSE result_deferred_fire([o EXCEPT !._is_finished = TRUE], "callback",
                              Http_seed_leech_dict(o._infohash_list, <<>>))

\* self.request.cancel(): a request still waiting for its response errbacks
\* into on_error, whose exception (if any) stays inside the Deferred
request_cancel(o) ==
    IF o.request # 0 /\ o.requests[o.request].state = "pending"
    THEN [Http_on_error([o EXCEPT !.requests[o.request].state = "cancelled"])
             EXCEPT !.raised = o.raised]
    ELSE o

Http_cleanup(o) ==
    LET o1 == TrackerSession_cleanup(o)
        o2 == request_cancel(o1)
        o3 == result_deferred_cancel(o2)
    IN  [o3 EXCEPT !.result_deferred = 0]

\* ------------------------------------------------------- FakeDHTSession
Dht_cleanup(o) == [o EXCEPT !._infohash_list = NoneList, !._session = FALSE]

Dht_can_add_request(o) == TRUE

Dht_add_request(o, infohash) ==
    IF o._session
    THEN [o EXCEPT !.queries = Append(@, [infohash |-> infohash, state |-> "pending"])]
    ELSE o

\* on_metainfo_received with seeders and leechers swapped
on_metainfo_received_swapped(o, q, metainfo) ==
    [o EXCEPT !.queries[q].state = "received",
              !.results = Append(@, [h \in {o.queries[q].infohash} |->
                                        <<metainfo.leechers, metainfo.seeders>>])]

on_metainfo_received(o, q, metainfo) ==
    [o EXCEPT !.queries[q].state = "received",
              !.results = Append(@, [h \in {o.queries[q].infohash} |->
                                        <<metainfo.seeders, metainfo.leechers>>])]

\* on_metainfo_timeout invoking the result callback twice
on_metainfo_timeout_twice(o, q, result_info_hash) ==
    [o EXCEPT !.queries[q].state = "timeout",
              !.results = @ \o <<[h \in {result_info_hash} |-> <<0, 0>>],
                                [h \in {result_info_hash} |-> <<0, 0>>]>>]

\* the key is the infohash the metainfo service passes to the closure
on_metainfo_timeout(o, q, result_info_hash) ==
    [o EXCEPT !.queries[q].state = "timeout",
              !.results = Append(@, [h \in {result_info_hash} |-> <<0, 0>>])]

\* get_metainfo's timeout_callback is called with the infohash of the query
timeout_callback_argument(query) == query.infohash

\* defer.succeed(dict()): a Deferred already called back with the empty map
Dht_connect_to_tracker(o) ==
    [o EXCEPT !.deferreds = Append(@, [state |-> "callback", value |-> <<>>, fired |-> 1])]

\* --------------------------------------------------------------- inputs
TxIds == 0..Min(MAX_INT32, MaxTxId)

\* The caller's next infohash: one it has already added, or the next new one
NextInfohashes(o) ==
    IF o._infohash_list = NoneList THEN {1}
    ELSE 1..(Len(o._infohash_list) + 1)

Lengths == {7, 15, 16} \cup {8 + 12 * k + d : k \in 0..MaxHashes, d \in {-1, 0, 1}}

Datagrams ==
    [length : Lengths,
     action : {TRACKER_ACTION_CONNECT, TRACKER_ACTION_SCRAPE},
     transaction_id : TxIds]

\* A 'files' entry of infohash h, with both counts, with one of them or with
\* neither key
Shapes == {"both", "complete", "incomplete", "neither"}
Entry(h, shape) ==
    [complete |-> IF shape \in {"both", "complete"} THEN 6 + h ELSE -1,
     incomplete |-> IF shape \in {"both", "incomplete"} THEN 2 + h ELSE -1]

FilesDicts ==
    {[h \in hs |-> Entry(h, shape)] : hs \in SUBSET (1..MaxHashes), shape \in Shapes}

Bodies ==
    {[kind |-> k, files_kind |-> "absent", files |-> <<>>, failure_reason |-> FALSE] :
        k \in {"None", "empty", "undecodable", "int"}}
    \cup
    {[kind |-> "dict", files_kind |-> fk, files |-> <<>>, failure_reason |-> fr] :
        fk \in {"absent", "other"}, fr \in BOOLEAN}
    \cup
    {[kind |-> "dict", files_kind |-> "dict", files |-> f, failure_reason |-> fr] :
        f \in FilesDicts, fr \in BOOLEAN}

Metainfos == [seeders : {4}, leechers : {0, 9}]

\* when the Deferred of reactor.resolve fires, and how, if it has fired
\* before connect_to_tracker adds its callbacks
DnsAnswers == {"later", "resolved", "failed"}

\* -------------------------------------------------------------- actions
Live == DOMAIN obj

\* the state a call on session self starts from, and the state it leaves:
\* the exception a call ends with goes to its caller and is no state
World(self) == [o |-> obj[self], reg |-> _active_session_dict]

Commit(self, w) ==
    /\ obj' = [obj EXCEPT ![self] = [w.o EXCEPT !.raised = "None"]]
    /\ _active_session_dict' = w.reg

CommitObj(self, o) ==
    /\ obj' = [obj EXCEPT ![self] = [o EXCEPT !.raised = "None"]]
    /\ UNCHANGED _active_session_dict

Cleaned(o) == o._infohash_list = NoneList

\* one session of any kind
Init ==
    /\ \E k \in TrackerTypes : obj = [s \in {"s1"} |-> TrackerSession_init(k)]
    /\ _active_session_dict = <<>>

\* two UDP sessions, which share the transaction-id registry
InitPair ==
    /\ obj = [s \in Sessions |-> TrackerSession_init("UDP")]
    /\ _active_session_dict = <<>>

\* one HTTP or UDP session, for the cap on the infohash list
InitCap ==
    /\ \E k \in {"HTTP", "UDP"} : obj = [s \in {"s1"} |-> TrackerSession_init(k)]
    /\ _active_session_dict = <<>>

\* --- the caller (the torrent checker)
AddRequest(self, infohash) ==
    /\ self \in Live
    /\ obj[self].tracker_type \in {"HTTP", "UDP"}
    /\ infohash \in NextInfohashes(obj[self])
    /\ CommitObj(self, add_request(World(self).o, infohash))

DhtAddRequest(self, infohash) ==
    /\ self \in Live
    /\ obj[self].tracker_type = "DHT"
    /\ Len(obj[self].queries) < MaxQueries
    /\ CommitObj(self, Dht_add_request(World(self).o, infohash))

\* create_connection and connect_to_tracker are called on a session that
\* was not cleaned up, create_connection first
UdpCreateConnection(self, transaction_id) ==
    /\ self \in Live
    /\ obj[self].tracker_type = "UDP"
    /\ ~Cleaned(obj[self])
    /\ ~in_items(transaction_id, _active_session_dict)
    /\ Commit(self, Udp_create_connection(self, World(self), transaction_id))

HttpCreateConnection(self) ==
    /\ self \in Live
    /\ obj[self].tracker_type = "HTTP"
    /\ ~Cleaned(obj[self])
    /\ CommitObj(self, Http_create_connection(World(self).o))

UdpConnectToTracker(self, maxConnects, answer) ==
    /\ self \in Live
    /\ obj[self].tracker_type = "UDP"
    /\ ~Cleaned(obj[self])
    /\ obj[self]._action # NoneAction
    /\ Len(obj[self].deferreds) < maxConnects
    /\ CommitObj(self, Udp_connect_to_tracker(World(self).o, answer))

HttpConnectToTracker(self) ==
    /\ self \in Live
    /\ obj[self].tracker_type = "HTTP"
    /\ ~Cleaned(obj[self])
    /\ obj[self]._action # NoneAction
    /\ Len(obj[self].deferreds) < MaxConnects
    /\ CommitObj(self, Http_connect_to_tracker(World(self).o))

DhtConnectToTracker(self) ==
    /\ self \in Live
    /\ obj[self].tracker_type = "DHT"
    /\ ~Cleaned(obj[self])
    /\ Len(obj[self].deferreds) < MaxConnects
    /\ CommitObj(self, Dht_connect_to_tracker(World(self).o))

UdpCleanup(self) ==
    /\ self \in Live
    /\ obj[self].tracker_type = "UDP"
    /\ Commit(self, Udp_cleanup(self, World(self)))

HttpCleanup(self) ==
    /\ self \in Live
    /\ obj[self].tracker_type = "HTTP"
    /\ CommitObj(self, Http_cleanup(World(self).o))

DhtCleanup(self) ==
    /\ self \in Live
    /\ obj[self].tracker_type = "DHT"
    /\ CommitObj(self, Dht_cleanup(World(self).o))

IncreaseRetries(self) ==
    /\ self \in Live
    /\ obj[self]._retries < MaxRetries
    /\ CommitObj(self, increase_retries(World(self).o))

\* the caller cancels the Deferred its last connect_to_tracker returned,
\* without calling cleanup
CancelResult(self) ==
    /\ self \in Live
    /\ obj[self].tracker_type \in {"HTTP", "UDP"}
    /\ obj[self].result_deferred # 0
    /\ obj[self].deferreds[obj[self].result_deferred].state = "pending"
    /\ CommitObj(self, result_deferred_cancel(World(self).o))

\* --- the reactor: DNS, the UDP socket and the scraper's timer
DnsResolved(self) ==
    /\ self \in Live
    /\ obj[self].ip_resolve_deferred = "pending"
    /\ CommitObj(self, on_ip_address_resolved(World(self).o))

DnsFailed(self) ==
    /\ self \in Live
    /\ obj[self].ip_resolve_deferred = "pending"
    /\ CommitObj(self, Udp_on_error(World(self).o))

TimerFires(self) ==
    /\ self \in Live
    /\ obj[self].scraper.timeout = "active"
    /\ CommitObj(self, UDPScraper_on_error([World(self).o EXCEPT !.scraper.timeout = "called"]))

DatagramReceived(self, data, transaction_id) ==
    /\ self \in Live
    /\ obj[self].scraper.state = "listening"
    /\ IF draws_transaction_id(obj[self], data)
       THEN ~in_items(transaction_id, _active_session_dict)
       ELSE transaction_id = 0
    /\ Commit(self, datagramReceived(self, World(self), data, transaction_id))

\* an ICMP port-unreachable answers a datagram the scraper wrote
ConnectionRefused(self) ==
    /\ self \in Live
    /\ obj[self].scraper.state = "listening"
    /\ obj[self].scraper.refused < Len(obj[self].scraper.written)
    /\ CommitObj(self, UDPScraper_on_error([World(self).o EXCEPT !.scraper.refused = @ + 1]))

\* --- the reactor: the HTTP agent
HttpResponse(self, i, code) ==
    /\ self \in Live
    /\ i \in 1..Len(obj[self].requests)
    /\ obj[self].requests[i].state = "pending"
    /\ CommitObj(self, on_response(World(self).o, i, code))

HttpRequestError(self, i) ==
    /\ self \in Live
    /\ i \in 1..Len(obj[self].requests)
    /\ obj[self].requests[i].state = "pending"
    /\ CommitObj(self, Http_on_error([World(self).o EXCEPT !.requests[i].state = "failed"]))

BodyReceived(self, i, body) ==
    /\ self \in Live
    /\ i \in 1..Len(obj[self].requests)
    /\ obj[self].requests[i].state = "reading"
    /\ CommitObj(self, _process_scrape_response(
                           [World(self).o EXCEPT !.requests[i].state = "done"], body))

BodyError(self, i) ==
    /\ self \in Live
    /\ i \in 1..Len(obj[self].requests)
    /\ obj[self].requests[i].state = "reading"
    /\ CommitObj(self, Http_on_error([World(self).o EXCEPT !.requests[i].state = "failed"]))

\* --- the reactor: the DHT metainfo service
MetainfoReceived(self, q, metainfo) ==
    /\ self \in Live
    /\ q \in 1..Len(obj[self].queries)
    /\ obj[self].queries[q].state = "pending"
    /\ CommitObj(self, on_metainfo_received(World(self).o, q, metainfo))

MetainfoTimeout(self, q) ==
    /\ self \in Live
    /\ q \in 1..Len(obj[self].queries)
    /\ obj[self].queries[q].state = "pending"
    /\ CommitObj(self, on_metainfo_timeout(World(self).o, q,
                           timeout_callback_argument(obj[self].queries[q])))

UdpStep(self, maxHashes, maxConnects) ==
    \/ \E h \in 1..maxHashes : AddRequest(self, h)
    \/ \E t \in TxIds : UdpCreateConnection(self, t)
    \/ \E answer \in DnsAnswers : UdpConnectToTracker(self, maxConnects, answer)
    \/ UdpCleanup(self)
    \/ CancelResult(self)
    \/ DnsResolved(self)
    \/ DnsFailed(self)
    \/ TimerFires(self)
    \/ \E data \in Datagrams, t \in TxIds : DatagramReceived(self, data, t)
    \/ ConnectionRefused(self)

HttpStep(self) ==
    \/ HttpCreateConnection(self)
    \/ HttpConnectToTracker(self)
    \/ HttpCleanup(self)
    \/ CancelResult(self)
    \/ \E i \in 1..MaxConnects, code \in {200, 404} : HttpResponse(self, i, code)
    \/ \E i \in 1..MaxConnects : HttpRequestError(self, i)
    \/ \E i \in 1..MaxConnects, body \in Bodies : BodyReceived(self, i, body)
    \/ \E i \in 1..MaxConnects : BodyError(self, i)

DhtStep(self) ==
    \/ \E h \in 1..MaxHashes : DhtAddRequest(self, h)
    \/ DhtConnectToTracker(self)
    \/ DhtCleanup(self)
    \/ \E q \in 1..MaxQueries, m \in Metainfos : MetainfoReceived(self, q, m)
    \/ \E q \in 1..MaxQueries : MetainfoTimeout(self, q)

Next ==
    \E self \in Sessions :
        \/ UdpStep(self, MaxHashes, MaxConnects)
        \/ HttpStep(self)
        \/ DhtStep(self)
        \/ IncreaseRetries(self)

NextPair == \E self \in Sessions : UdpStep(self, PairHashes, PairConnects)

NextCap ==
    \E self \in Sessions : \E h \in 1..MaxCapHashes : AddRequest(self, h)

Spec == Init /\ [][Next]_vars
SpecPair == InitPair /\ [][NextPair]_vars
SpecCap == InitCap /\ [][NextCap]_vars

\* The reactor runs a pending delayed call when its time comes; datagrams,
\* DNS answers, HTTP responses and the caller's calls may never come.
SpecLive == Init /\ [][Next]_vars /\ WF_vars(\E self \in Sessions : TimerFires(self))

\* ---------------------------------------------------------------- claims
Udp == {s \in Sessions : s \in DOMAIN obj /\ obj[s].tracker_type = "UDP"}
Http == {s \in Sessions : s \in DOMAIN obj /\ obj[s].tracker_type = "HTTP"}
Dht == {s \in Sessions : s \in DOMAIN obj /\ obj[s].tracker_type = "DHT"}

\* the Deferred was called back with a result map or errbacked by failed()
\* (a cancelled one holds CancelledError)
Resolved(d) == d.state \in {"callback", "errback"}

\* C1: the result sink returned by a connect_to_tracker call is fired at
\* most once, whatever the tracker, the timer, the socket, DNS and cleanup
\* do.  Stated for the sessions on which connect_to_tracker was called once:
\* callback and errback are invoked on its Deferred at most once in total.
C1_SinkFiredAtMostOnce ==
    \A s \in Udp \cup Http :
        Len(obj[s].deferreds) = 1 => obj[s].deferreds[1].fired <= 1

\* C2: no two live UDP sessions hold the same transaction id in
\* _active_session_dict.
C2_TransactionIdsUnique ==
    \A s1, s2 \in DOMAIN _active_session_dict :
        s1 # s2 => _active_session_dict[s1] # _active_session_dict[s2]

\* C3: the step in which a UDP session's result sink is called back with a
\* result map or errbacked by failed() (FINISHED, FAILED, TIMED_OUT) leaves
\* no entry for the session in _active_session_dict.
C3_TerminalTransitionRemovesId ==
    [][\A s \in Udp :
          LET i == obj'[s].result_deferred
          IN  (/\ i # 0
               /\ i = obj[s].result_deferred
               /\ obj[s].deferreds[i].state = "pending"
               /\ Resolved(obj'[s].deferreds[i]))
              => s \notin DOMAIN _active_session_dict']_vars

\* C4: once UdpTrackerSession.cleanup has run, from whatever state,
\* _active_session_dict holds no entry for the session, in that state and in
\* every state that follows it.
C4_NoEntryAfterCleanup ==
    \A s \in Udp : Cleaned(obj[s]) => s \notin DOMAIN _active_session_dict

\* a session cleaned up while it waited for the SCRAPE response, its second
\* transaction id generated and not removed by a success
C4_Witness ==
    \E s \in Udp :
        /\ Cleaned(obj[s])
        /\ Len(obj[s].scraper.written) = 2
        /\ ~obj[s]._is_finished
        /\ ~obj[s]._is_failed
        /\ s \notin DOMAIN _active_session_dict

\* C5: when the scraper's timer fires before any datagram was received, the
\* session's result sink fails and is_timed_out is true.
C5_TimerFiringSetsTimedOut ==
    [][\A s \in Udp :
          (/\ obj[s].scraper.timeout = "active"
           /\ obj'[s].scraper.timeout = "called"
           /\ obj[s].scraper.expect_connection_response)
          => /\ obj'[s]._is_timed_out
             /\ obj'[s].deferreds[obj'[s].result_deferred].state = "errback"]_vars

\* a UDP session that waits for the SCRAPE response: CONNECT response
\* accepted, SCRAPE request written, socket open, result sink pending
Scraping(s) ==
    /\ s \in Udp
    /\ ~Cleaned(obj[s])
    /\ obj[s].scraper.state = "listening"
    /\ ~obj[s].scraper.expect_connection_response
    /\ Len(obj[s].scraper.written) = 2
    /\ obj[s].deferreds[obj[s].result_deferred].state = "pending"

\* C6: a UDP session that waits for the SCRAPE response eventually leaves
\* that wait (its result sink fails by the inactivity timer, if nothing else
\* ends the wait first); it never waits forever.
C6_ScrapePhaseTerminates ==
    \A s \in Sessions : Scraping(s) ~> ~Scraping(s)

C8_AtMostMaxMultiScrape ==
    \A s \in Udp \cup Http :
        ~Cleaned(obj[s]) => Len(obj[s]._infohash_list) <= MAX_TRACKER_MULTI_SCRAPE

\* what C9 says of one session object on which connect_to_tracker was called
InitiatedRejects(o) ==
    /\ o._is_initiated
    /\ ~can_add_request(o)
    /\ \A h \in 1..(MaxHashes + 1) :
          add_request(o, h) = [o EXCEPT !.raised = "AssertionError"]
    /\ ~Cleaned(o) =>
          /\ \A i \in 1..Len(o.requests) : o.requests[i].info_hash = o._infohash_list
          /\ Len(o.scraper.written) = 2 =>
                o.scraper.written[2].infohashes = o._infohash_list

\* C9: once connect_to_tracker was called on an HTTP or UDP session,
\* can_add_request is false, every add_request raises and changes nothing,
\* no step changes the infohash list except cleanup clearing it, and the
\* HTTP requests and the SCRAPE datagram carry the list as it is.
C9_NoAddRequestAfterConnect ==
    /\ [](\A s \in Udp \cup Http :
             Len(obj[s].deferreds) > 0 => InitiatedRejects(obj[s]))
    /\ [][\A s \in Udp \cup Http :
             obj[s]._is_initiated =>
                obj'[s]._infohash_list \in {obj[s]._infohash_list, NoneList}]_vars

\* an initiated session that sent its batch of MaxHashes infohashes, on
\* which the caller can call add_request again
C9_Witness ==
    \E s \in Udp \cup Http :
        /\ obj[s]._is_initiated
        /\ Len(obj[s]._infohash_list) = MaxHashes
        /\ \/ Len(obj[s].scraper.written) = 2
           \/ Len(obj[s].requests) > 0
        /\ ENABLED AddRequest(s, 1)

\* C10: for every session kind a duplicate add_request is rejected: the
\* infohash list holds no infohash twice, has_request(h) is true once
\* add_request(h) was called, and no infohash is queried twice.
C10_NoDuplicateRequests ==
    \A s \in Udp \cup Http \cup Dht :
        LET o == obj[s]
        IN  ~Cleaned(o) =>
            /\ \A i, j \in 1..Len(o._infohash_list) :
                  o._infohash_list[i] = o._infohash_list[j] => i = j
            /\ \A i, j \in 1..Len(o.queries) :
                  o.queries[i].infohash = o.queries[j].infohash => i = j
            /\ \A q \in 1..Len(o.queries) : has_request(o, o.queries[q].infohash)

\* C11: cleanup is idempotent for every session kind: on a session that was
\* cleaned up, another cleanup call raises nothing and changes neither the
\* session (its flags, sinks, scraper, timer) nor _active_session_dict.
C11_CleanupIdempotent ==
    \A s \in Udp \cup Http \cup Dht :
        Cleaned(obj[s]) =>
            /\ s \in Udp => Udp_cleanup(s, World(s)) = World(s)
            /\ s \in Http => Http_cleanup(obj[s]) = obj[s]
            /\ s \in Dht => Dht_cleanup(obj[s]) = obj[s]

\* C12: on HTTP success the key set of the delivered result map is exactly
\* the set of infohashes the session queried: no other key, none missing.
C12_HttpKeySetIsQueriedSet ==
    \A s \in Http :
        \A i \in 1..Len(obj[s].deferreds) :
            obj[s].deferreds[i].state = "callback" =>
                DOMAIN obj[s].deferreds[i].value = Range(obj[s].requests[i].info_hash)

\* C13: on UDP success with N queried infohashes the delivered result map
\* has exactly the N infohashes of infohash_list as keys, and the k-th
\* (seeders, downloaded, leechers) tuple of the SCRAPE response is bound to
\* the k-th infohash as (seeders, leechers).
C13_UdpPositionalBinding ==
    [][\A s \in Udp :
          \A i \in 1..Len(obj[s].deferreds) :
              (/\ obj[s].deferreds[i].state = "pending"
               /\ obj'[s].deferreds[i].state = "callback")
              => LET l == obj[s]._infohash_list
                     v == obj'[s].deferreds[i].value
                 IN  /\ DOMAIN v = Range(l)
                     /\ \A k \in 1..Len(l) :
                           v[l[k]] = <<Tuple(<<>>, k)[1], Tuple(<<>>, k)[3]>>]_vars

\* a UDP session whose sink was called back with a map of MaxHashes keys
C13_Witness ==
    \E s \in Udp :
        /\ obj[s]._is_finished
        /\ Len(obj[s].deferreds) = 1
        /\ obj[s].deferreds[1].state = "callback"
        /\ Cardinality(DOMAIN obj[s].deferreds[1].value) = MaxHashes
        /\ MaxHashes >= 2

\* a UDP session that awaits its SCRAPE response: socket open, the first
\* datagram consumed, the session not failed
AwaitsScrapeResponse(o) ==
    /\ ~Cleaned(o)
    /\ o.scraper.state = "listening"
    /\ ~o.scraper.expect_connection_response
    /\ ~o._is_failed

\* C14: a SCRAPE response whose action and transaction id match is accepted
\* if and only if its length is exactly 8 + 12 * N for N = |infohash_list|:
\* then the session finishes and a pending sink gets the result map; with
\* any other length the session fails, is_failed is set, is_finished is not
\* set and no sink gets a result map.
C14_ScrapeLengthExact ==
    \A s \in Udp :
        LET o == obj[s]
        IN  AwaitsScrapeResponse(o) =>
            \A data \in Datagrams :
                (data.action = o._action /\ data.transaction_id = o._transaction_id)
                => LET o2 == datagramReceived(s, World(s), data, 0).o
                       i == o.result_deferred
                   IN  IF data.length = 8 + 12 * Len(o._infohash_list)
                       THEN /\ o2._is_finished
                            /\ ~o2._is_failed
                            /\ o.deferreds[i].state = "pending" =>
                                  /\ o2.deferreds[i].state = "callback"
                                  /\ DOMAIN o2.deferreds[i].value = Range(o._infohash_list)
                       ELSE /\ o2._is_failed
                            /\ o2._is_finished = o._is_finished
                            /\ \A j \in 1..Len(o.deferreds) :
                                  o2.deferreds[j].state = "callback"
                                     => /\ o.deferreds[j].state = "callback"
                                        /\ o.deferreds[j].value = o2.deferreds[j].value

\* a session with MaxHashes infohashes that awaits its SCRAPE response with
\* its sink pending, to which a response one byte too long can be delivered
C14_Witness ==
    \E s \in Udp :
        /\ AwaitsScrapeResponse(obj[s])
        /\ Len(obj[s]._infohash_list) = MaxHashes
        /\ Len(obj[s].scraper.written) = 2
        /\ obj[s].deferreds[obj[s].result_deferred].state = "pending"
        /\ ENABLED DatagramReceived(s, [length |-> 8 + 12 * MaxHashes + 1,
                                        action |-> obj[s]._action,
                                        transaction_id |-> obj[s]._transaction_id], 0)

\* what C15 says of the datagrams one scraper of session s wrote and of
\* every datagram that can reach it in this state
ProtocolOrder(s) ==
    LET o == obj[s]
        sent == o.scraper.written
    IN  /\ Len(sent) <= 2
        /\ o.scraper.state # "None" => Len(sent) >= 1
        \* connected once: the first datagram is the CONNECT request, and the
        \* session compares the response with what that request carried
        /\ (Len(o.deferreds) = 1 /\ Len(sent) >= 1) =>
              /\ sent[1].action = TRACKER_ACTION_CONNECT
              /\ sent[1].transaction_id = o._transaction_id
              /\ o.scraper.expect_connection_response => sent[1].action = o._action
        /\ Len(sent) = 2 =>
              /\ sent[2].action = TRACKER_ACTION_SCRAPE
              /\ ~o.scraper.expect_connection_response
        /\ o.scraper.state = "listening" =>
              \A data \in Datagrams, t \in TxIds :
                  LET valid == /\ data.length >= 16
                               /\ data.action = o._action
                               /\ data.transaction_id = o._transaction_id
                      o2 == datagramReceived(s, World(s), data, t).o
                  IN  \* a SCRAPE request is written on a valid CONNECT response only
                      /\ o2.scraper.written # sent =>
                            /\ Len(sent) = 1
                            /\ o.scraper.expect_connection_response
                            /\ valid
                            /\ o2.scraper.written =
                                  Append(sent, [action |-> TRACKER_ACTION_SCRAPE,
                                                transaction_id |-> o2._transaction_id,
                                                infohashes |-> o._infohash_list])
                      \* an invalid CONNECT response fails the session
                      /\ (o.scraper.expect_connection_response /\ ~valid) =>
                            /\ o2._is_failed
                            /\ o2.scraper.written = sent
                      \* a SCRAPE response is accepted after the SCRAPE request only
                      /\ o2.scraper.state = "stopped" => Len(sent) = 2

\* C15: within one UDP session the order is CONNECT request, CONNECT
\* response, SCRAPE request, SCRAPE response: the SCRAPE request is written
\* only on a CONNECT response of at least 16 bytes whose action and
\* transaction id are the ones the session expects (those its CONNECT
\* request carried, for a session connected once); a CONNECT response that
\* fails validation fails the session, and a failed session never writes a
\* SCRAPE request.
C15_ProtocolOrder ==
    /\ [](\A s \in Udp : ~Cleaned(obj[s]) => ProtocolOrder(s))
    /\ [][\A s \in Udp :
             (obj[s]._is_failed /\ Len(obj[s].scraper.written) < 2)
             => /\ obj'[s]._is_failed
                /\ Len(obj'[s].scraper.written) < 2]_vars

\* a session, connected once, that an invalid CONNECT response failed: one
\* datagram written, the first datagram consumed, no refusal, no timer
C15_Witness ==
    \E s \in Udp :
        /\ Len(obj[s].deferreds) = 1
        /\ obj[s]._is_failed
        /\ obj[s].scraper.state = "listening"
        /\ Len(obj[s].scraper.written) = 1
        /\ ~obj[s].scraper.expect_connection_response
        /\ obj[s].scraper.timeout = "cancelled"
        /\ obj[s].scraper.refused = 0
        /\ obj[s].deferreds[1].state = "errback"

\* C16: cancelling the Deferred that UdpTrackerSession.connect_to_tracker
\* returned, without a cleanup call, closes the UDP endpoint, cancels the
\* inactivity timer and removes the session's id from _active_session_dict.
C16_CancelStopsSession ==
    [][\A s \in Udp :
          LET i == obj[s].result_deferred
          IN  (/\ i # 0
               /\ obj'[s].result_deferred = i
               /\ ~Cleaned(obj'[s])
               /\ obj[s].deferreds[i].state = "pending"
               /\ obj'[s].deferreds[i].state = "cancelled")
              => /\ obj'[s].scraper.state # "listening"
                 /\ obj'[s].scraper.timeout # "active"
                 /\ s \notin DOMAIN _active_session_dict']_vars

\* C17: when cleanup is called on an initiated HTTP or UDP session whose
\* result sink has not resolved yet, the sink ends with the Cancelled
\* outcome, not with the failure that failed() delivers.
C17_CleanupCancelsSink ==
    [][\A s \in Udp \cup Http :
          LET i == obj[s].result_deferred
          IN  (/\ ~Cleaned(obj[s])
               /\ Cleaned(obj'[s])
               /\ i # 0
               /\ obj[s].deferreds[i].state = "pending")
              => obj'[s].deferreds[i].state = "cancelled"]_vars

\* C18: once UdpTrackerSession.cleanup has run, from whatever state, the
\* infohash list is cleared, the scraper is stopped and its timer is not
\* pending, so the timer cannot fire; and no later step changes the session's
\* flags or touches a result sink.
C18_CleanupReleasesScraper ==
    /\ [](\A s \in Udp :
             Cleaned(obj[s]) =>
                /\ obj[s]._infohash_list = NoneList
                /\ obj[s].scraper.state \in {"None", "deleted"}
                /\ obj[s].scraper.timeout # "active"
                /\ ~ENABLED TimerFires(s))
    /\ [][\A s \in Udp :
             Cleaned(obj[s]) =>
                /\ Cleaned(obj'[s])
                /\ obj'[s]._is_finished = obj[s]._is_finished
                /\ obj'[s]._is_failed = obj[s]._is_failed
                /\ obj'[s]._is_timed_out = obj[s]._is_timed_out
                /\ obj'[s].deferreds = obj[s].deferreds]_vars

\* a session cleaned up while its timer was pending: the first datagram
\* never came, and the timer was cancelled by the scraper's stop
C18_Witness ==
    \E s \in Udp :
        /\ Cleaned(obj[s])
        /\ obj[s].scraper.state = "deleted"
        /\ obj[s].scraper.expect_connection_response
        /\ obj[s].scraper.timeout = "cancelled"
        /\ ~obj[s]._is_failed

\* C19: after a session was cleaned up its result callback is never invoked
\* again: no step from a cleaned-up state adds a call of _on_result_callback,
\* a DHT metainfo answer or timeout included.
C19_NoCallbackAfterCleanup ==
    [][\A s \in Udp \cup Http \cup Dht :
          Cleaned(obj[s]) => obj'[s].results = obj[s].results]_vars

\* C20: the result callback given at construction is invoked at most once
\* over a session's lifetime, also for a DHT session with several infohashes.
C20_CallbackAtMostOnce ==
    \A s \in Udp \cup Http \cup Dht : Len(obj[s].results) <= 1

\* the queries of a DHT session that were answered or timed out
Answered(o) == {q \in 1..Len(o.queries) : o.queries[q].state # "pending"}

\* C20, as the code has it: an HTTP or UDP session never invokes the result
\* callback; a DHT session invokes it once for each query that was answered
\* or timed out, each time with a map whose only key is an infohash it
\* queried, so at most once per add_request and not once per session.
C20_CallbackOncePerQuery ==
    /\ \A s \in Udp \cup Http : obj[s].results = <<>>
    /\ \A s \in Dht :
          /\ Len(obj[s].results) = Cardinality(Answered(obj[s]))
          /\ Len(obj[s].results) <= Len(obj[s].queries)
          /\ \A r \in 1..Len(obj[s].results) :
                \E q \in Answered(obj[s]) :
                    DOMAIN obj[s].results[r] = {obj[s].queries[q].infohash}

\* a DHT session with MaxQueries queries, all of them answered or timed out,
\* one of them by a timeout
C20_Witness ==
    \E s \in Dht :
        /\ Len(obj[s].queries) = MaxQueries
        /\ Len(obj[s].results) = MaxQueries
        /\ MaxQueries >= 2
        /\ \E q \in 1..Len(obj[s].queries) : obj[s].queries[q].state = "timeout"

\* C21: for an HTTP or UDP session connect_to_tracker sets is_initiated, and
\* no later step (response, failure, timer, a repeated create_connection or
\* connect_to_tracker, increase_retries, cleanup) sets it back to false.
C21_InitiatedStaysTrue ==
    /\ [](\A s \in Udp \cup Http :
             Len(obj[s].deferreds) > 0 => obj[s]._is_initiated)
    /\ [][\A s \in Udp \cup Http :
             obj[s]._is_initiated => obj'[s]._is_initiated]_vars

\* a session that failed, was connected again after another
\* create_connection, had its retries increased and was cleaned up
C21_Witness ==
    \E s \in Udp \cup Http :
        /\ obj[s]._is_initiated
        /\ obj[s]._is_failed
        /\ Len(obj[s].deferreds) = 2
        /\ obj[s]._is_timed_out = FALSE
        /\ obj[s]._retries >= 1
        /\ Cleaned(obj[s])

\* the session object when the body of its i-th request has been read
BodyRead(o, i) == [o EXCEPT !.requests[i].state = "done"]

\* C22: every decoded HTTP scrape response that contains the key 'failure
\* reason' fails the session: is_failed is true, is_finished is false, a
\* pending result sink is errored and no sink gets a result map.
C22_FailureReasonFails ==
    \A s \in Http :
        \A i \in 1..Len(obj[s].requests) :
            obj[s].requests[i].state = "reading" =>
                \A body \in Bodies :
                    (body.kind = "dict" /\ body.failure_reason) =>
                        LET o == obj[s]
                            o2 == _process_scrape_response(BodyRead(o, i), body)
                            d == o.result_deferred
                        IN  /\ o2._is_failed
                            /\ ~o2._is_finished
                            /\ (d # 0 /\ o.deferreds[d].state = "pending")
                                  => o2.deferreds[d].state = "errback"
                            /\ \A j \in 1..Len(o.deferreds) :
                                  o2.deferreds[j].state = "callback"
                                     => o.deferreds[j].state = "callback"

\* C23: for a live DHT session each add_request(h) dispatches one metainfo
\* query; the answer of a query for h invokes the result callback with the
\* one-key map {h: (metainfo.seeders, metainfo.leechers)}, its timeout with
\* {h: (0, 0)}; and every result of connect_to_tracker is the empty map,
\* whatever was added.
C23_DhtResults ==
    /\ [](\A s \in Dht :
             /\ \A i \in 1..Len(obj[s].deferreds) :
                   /\ obj[s].deferreds[i].state = "callback"
                   /\ obj[s].deferreds[i].value = <<>>
             /\ obj[s]._session =>
                   \A h \in 1..MaxHashes :
                       Dht_add_request(obj[s], h) =
                           [obj[s] EXCEPT !.queries =
                               Append(@, [infohash |-> h, state |-> "pending"])])
    /\ [][\A s \in Dht :
             \A q \in 1..Len(obj[s].queries) :
                 LET h == obj[s].queries[q].infohash
                     n == Len(obj[s].results)
                 IN  (obj[s].queries[q].state = "pending"
                        /\ obj'[s].queries[q].state # "pending")
                     => /\ Len(obj'[s].results) = n + 1
                        /\ SubSeq(obj'[s].results, 1, n) = obj[s].results
                        /\ DOMAIN obj'[s].results[n + 1] = {h}
                        /\ IF obj'[s].queries[q].state = "timeout"
                           THEN obj'[s].results[n + 1][h] = <<0, 0>>
                           ELSE \E m \in Metainfos :
                                   obj'[s].results[n + 1][h] = <<m.seeders, m.leechers>>]_vars

\* a DHT session with two queries for different infohashes, one answered and
\* one timed out, on which connect_to_tracker was called too
C23_Witness ==
    \E s \in Dht :
        /\ Len(obj[s].queries) = 2
        /\ obj[s].queries[1].infohash # obj[s].queries[2].infohash
        /\ obj[s].queries[1].state = "received"
        /\ obj[s].queries[2].state = "timeout"
        /\ obj[s].results =
              << [h \in {obj[s].queries[1].infohash} |-> <<4, 9>>],
                 [h \in {obj[s].queries[2].infohash} |-> <<0, 0>>] >>
        /\ Len(obj[s].deferreds) >= 1
        /\ obj[s].deferreds[1].value = <<>>

\* C24: the transaction id carried in each outbound UDP request (CONNECT and
\* SCRAPE) is the id most recently generated for the session and recorded in
\* _active_session_dict, and responses are validated against that same id:
\* in every step that writes a datagram, the datagram's transaction id and
\* the id the session compares responses with are the session's registry
\* entry.
C24_WireCarriesGeneratedId ==
    [][\A s \in Udp :
          LET sent == obj'[s].scraper.written
          IN  (sent # obj[s].scraper.written /\ Len(sent) >= 1)
              => /\ s \in DOMAIN _active_session_dict'
                 /\ sent[Len(sent)].transaction_id = _active_session_dict'[s]
                 /\ obj'[s]._transaction_id = _active_session_dict'[s]]_vars

\* C25: errors are terminal: from a state in which an HTTP or UDP session
\* has failed (is_failed true) no step, a late datagram or response and a
\* repeated create_connection or connect_to_tracker included, sets
\* is_finished or calls a result sink back with a result map.
C25_ErrorsAreTerminal ==
    [][\A s \in Udp \cup Http :
          obj[s]._is_failed =>
             /\ obj'[s]._is_finished => obj[s]._is_finished
             /\ \A j \in 1..Len(obj'[s].deferreds) :
                   obj'[s].deferreds[j].state = "callback"
                      => /\ j <= Len(obj[s].deferreds)
                         /\ obj[s].deferreds[j].state = "callback"]_vars

\* the step in which the DNS resolution of session s fails: the Deferred of
\* reactor.resolve errbacks, after connect_to_tracker returned or (a new
\* sink appears in the same step) before it did
DnsFailure(s) ==
    /\ obj'[s].ip_resolve_deferred = "failed"
    /\ \/ obj[s].ip_resolve_deferred = "pending"
       \/ Len(obj'[s].deferreds) > Len(obj[s].deferreds)

\* C26: when DNS resolution of the tracker host fails for a UDP session,
\* before or after connect_to_tracker returns, the result sink that
\* connect_to_tracker call returned (unless its caller cancelled it first)
\* receives the failure, is_failed becomes true, and no UDP endpoint is
\* opened and no CONNECT request is written.
C26_DnsFailureFailsSink ==
    [][\A s \in Udp :
          DnsFailure(s) =>
             LET d == obj'[s].result_deferred
             IN  /\ obj'[s]._is_failed
                 /\ obj'[s].scraper = obj[s].scraper
                 /\ (d > Len(obj[s].deferreds) \/ obj[s].deferreds[d].state = "pending")
                       => obj'[s].deferreds[d].state = "errback"]_vars

\* what C27 expects for infohash h from the decoded body: the counts of its
\* 'files' entry, 0 for a count the entry lacks, (0, 0) without an entry
ExpectedSeedLeech(body, h) ==
    IF body.files_kind = "dict" /\ h \in DOMAIN body.files
    THEN <<IF body.files[h].complete = -1 THEN 0 ELSE body.files[h].complete,
           IF body.files[h].incomplete = -1 THEN 0 ELSE body.files[h].incomplete>>
    ELSE <<0, 0>>

\* C27: on HTTP success every queried infohash absent from 'files' gets
\* (0, 0) and every one present gets (complete, incomplete), a missing field
\* being 0; a decoded response without 'failure reason', also one without
\* 'files' and one to a request with no infohashes, finishes the session and
\* calls a pending sink back with such a map.
C27_HttpDefaults ==
    \A s \in Http :
        \A i \in 1..Len(obj[s].requests) :
            (obj[s].requests[i].state = "reading" /\ ~Cleaned(obj[s])) =>
                \A body \in Bodies :
                    LET o == obj[s]
                        o2 == _process_scrape_response(BodyRead(o, i), body)
                        d == o.result_deferred
                        delivered == /\ o.deferreds[d].state = "pending"
                                     /\ o2.deferreds[d].state = "callback"
                    IN  /\ delivered =>
                              \A h \in Range(o.requests[i].info_hash) :
                                  /\ h \in DOMAIN o2.deferreds[d].value
                                  /\ o2.deferreds[d].value[h] = ExpectedSeedLeech(body, h)
                        /\ (body.kind = "dict" /\ ~body.failure_reason) =>
                              /\ o2._is_finished
                              /\ o2.raised \in {"None", "AlreadyCalledError"}
                              /\ o.deferreds[d].state = "pending" => delivered

\* a sink called back with (7, 0) for infohash 1, whose entry had no
\* 'incomplete', and (0, 0) for infohash 2, which the tracker's 'files' left
\* out or listed without counts
C27_Witness ==
    \E s \in Http :
        /\ obj[s]._is_finished
        /\ Len(obj[s].deferreds) = 1
        /\ obj[s].requests[1].info_hash = <<1, 2>>
        /\ obj[s].deferreds[1].state = "callback"
        /\ obj[s].deferreds[1].value = [h \in {1, 2} |-> IF h = 1 THEN <<7, 0>> ELSE <<0, 0>>]

\* the responses C28 is about, each as the pair of the session before and
\* after its handler: a status other than 200 to a request in flight, and an
\* absent, empty or undecodable body to a request whose body is being read
FailingResponses(s) ==
    LET o == obj[s]
    IN  {<<o, on_response(o, i, 404), i>> :
            i \in {j \in 1..Len(o.requests) : o.requests[j].state = "pending"}}
        \cup
        {<<o, _process_scrape_response(BodyRead(o, x[1]), x[2]), x[1]>> :
            x \in {j \in 1..Len(o.requests) : o.requests[j].state = "reading"}
                  \X {b \in Bodies : b.kind \in {"None", "empty", "undecodable"}}}

\* C28: an HTTP response with a status other than 200, an empty body or a
\* body that cannot be bdecoded fails the session: is_failed becomes true,
\* is_finished is not set (and is false on a session connected once), a
\* pending result sink receives exactly one failure, no sink receives a
\* result map, and after a status other than 200 the body is never read.
C28_HttpErrorResponsesFail ==
    /\ [](\A s \in Http : \A p \in FailingResponses(s) :
             LET o == p[1]
                 o2 == p[2]
                 d == o.result_deferred
             IN  /\ o2._is_failed
                 /\ o2._is_finished = o._is_finished
                 /\ Len(o.deferreds) = 1 => ~o2._is_finished
                 /\ (d # 0 /\ o.deferreds[d].state = "pending")
                       => /\ o2.deferreds[d].state = "errback"
                          /\ o2.deferreds[d].fired = 1
                 /\ \A j \in 1..Len(o.deferreds) :
                       o2.deferreds[j].state = "callback"
                          => /\ o.deferreds[j].state = "callback"
                             /\ o.deferreds[j].value = o2.deferreds[j].value
                 /\ o2.requests[p[3]].state = "done")
    /\ [][\A s \in Http : \A i \in 1..Len(obj[s].requests) :
             obj[s].requests[i].state = "done" => obj'[s].requests[i].state = "done"]_vars

\* a session, connected once, whose request was answered with a status
\* other than 200: failed, not finished, its sink errbacked once
C28_Witness ==
    \E s \in Http :
        /\ Len(obj[s].deferreds) = 1
        /\ obj[s].requests[1].state = "done"
        /\ obj[s]._is_failed
        /\ ~obj[s]._is_finished
        /\ obj[s].deferreds[1].state = "errback"
        /\ obj[s].deferreds[1].fired = 1
        /\ ~Cleaned(obj[s])

\* the step leaves session s alone: its fields (flags, result sinks,
\* scraper) and its entry in _active_session_dict
Untouched(s) ==
    /\ obj'[s] = obj[s]
    /\ (s \in DOMAIN _active_session_dict') = (s \in DOMAIN _active_session_dict)
    /\ s \in DOMAIN _active_session_dict
          => _active_session_dict'[s] = _active_session_dict[s]

\* C29: with several UDP sessions live at once, _active_session_dict holds
\* at most one entry per session, which is the id the session generated
\* last: the CONNECT-to-SCRAPE transition replaces the entry and adds none;
\* and every step (id generation, datagram handling, failure, success,
\* cleanup) is a step of one session that leaves every other session's
\* registry entry, flags and result sinks unchanged.
C29_SessionsIndependent ==
    /\ [](/\ DOMAIN _active_session_dict \subseteq Udp
          /\ \A s \in DOMAIN _active_session_dict :
                _active_session_dict[s] = obj[s].transaction_id)
    /\ [][\E self \in Sessions : \A s \in Udp \ {self} : Untouched(s)]_vars
    /\ [][\A s \in Udp :
             (Len(obj[s].scraper.written) = 1 /\ Len(obj'[s].scraper.written) = 2)
             => /\ DOMAIN _active_session_dict' = DOMAIN _active_session_dict \cup {s}
                /\ _active_session_dict'[s] = obj'[s].transaction_id]_vars

\* two sessions that drew the same id: one finished, which removed its
\* entry, while the other, waiting for its SCRAPE response, kept its own
C29_Witness ==
    \E s1, s2 \in Udp :
        /\ s1 # s2
        /\ obj[s1].transaction_id = obj[s2].transaction_id
        /\ obj[s2]._is_finished
        /\ s2 \notin DOMAIN _active_session_dict
        /\ s1 \in DOMAIN _active_session_dict
        /\ Len(obj[s1].scraper.written) = 2
        /\ ~obj[s1]._is_finished

====
